---- MODULE Spec2Model ----
(***************************************************************************)
(* A model of ivision (src/ivision/ivision.py): the ocr_image function,    *)
(* its completion handler, the ocr command and the command lookup of       *)
(* AliasedGroup.                                                           *)
(*                                                                         *)
(* Strings are sequences of one-character strings.  Python's None is the   *)
(* record None; a value that may be None is a record otherwise.  Lengths   *)
(* of the framework's boxes are integers in units of 1/Grid of the image   *)
(* (normalized) and in pixels after VNImageRectForNormalizedRect.          *)
(* Confidences are integers in thousandths.                                *)
(***************************************************************************)
EXTENDS Integers, Sequences, FiniteSets

(***************************************************************************)
(* Bounds of the model.                                                    *)
(***************************************************************************)
\* the longest recognized string
MaxLen == 3
\* the most results one recognition request returns
MaxResults == 2
\* the resolution of normalized coordinates: k stands for k/Grid
Grid == 4

None == [none |-> TRUE]
Unbound == [unbound |-> TRUE]

RECURSIVE SeqsUpTo(_, _)
SeqsUpTo(S, n) ==
    IF n = 0 THEN {<<>>}
    ELSE LET shorter == SeqsUpTo(S, n - 1)
         IN  shorter \cup {Append(s, x) : s \in {t \in shorter : Len(t) = n - 1}, x \in S}

(***************************************************************************)
(* Text.                                                                   *)
(***************************************************************************)
\* the characters \S of the handler's pattern does not match: the pattern is
\* a str, so these are the characters str.isspace holds of.  A character with
\* no literal of its own is written as its code point.
Whitespace ==
    {"\t", "\n", "U+000B", "\f", "\r", "U+001C", "U+001D", "U+001E", "U+001F", " ",
     "U+0085", "U+00A0", "U+1680", "U+2000", "U+2001", "U+2002", "U+2003", "U+2004",
     "U+2005", "U+2006", "U+2007", "U+2008", "U+2009", "U+200A", "U+2028", "U+2029",
     "U+202F", "U+205F", "U+3000"}
IsSpace(c) == c \in Whitespace

\* the end (exclusive, 0-based) of the greedy match of \S+ that starts at the
\* 0-based position start of string
RECURSIVE RunEnd(_, _)
RunEnd(string, start) ==
    IF start < Len(string) /\ ~IsSpace(string[start + 1])
    THEN RunEnd(string, start + 1)
    ELSE start

\* FindIter, were the pattern \S: every character that is not whitespace is a
\* match of its own
RECURSIVE FindIterSingle(_, _)
FindIterSingle(string, pos) ==
    IF pos >= Len(string) THEN <<>>
    ELSE IF IsSpace(string[pos + 1]) THEN FindIterSingle(string, pos + 1)
    ELSE <<[start |-> pos, end |-> pos + 1]>> \o FindIterSingle(string, pos + 1)

\* re.finditer(r"(\S+)", string) from position pos on: the spans of the
\* successive non-overlapping matches, left to right
RECURSIVE FindIter(_, _)
FindIter(string, pos) ==
    IF pos >= Len(string) THEN <<>>
    ELSE IF IsSpace(string[pos + 1]) THEN FindIter(string, pos + 1)
    ELSE LET end == RunEnd(string, pos)
         IN  <<[start |-> pos, end |-> end]>> \o FindIter(string, end)

\* match.group() of a match with the span [start, end)
Group(string, span) == SubSeq(string, span.start + 1, span.end)

\* sep.join(strings)
RECURSIVE Join(_, _)
Join(sep, strings) ==
    IF strings = <<>> THEN <<>>
    ELSE IF Len(strings) = 1 THEN strings[1]
    ELSE strings[1] \o sep \o Join(sep, Tail(strings))

(***************************************************************************)
(* The framework: a recognition result is its top candidate, with the      *)
(* string, the confidence and the geometry of its text line (origin of the *)
(* line, advance per character and height, normalized, bottom-left origin).*)
(***************************************************************************)
\* cand.boundingBoxForRange_error_(NSRange(location, length)).boundingBox()
BoundingBoxForRange(cand, location, length) ==
    [x |-> cand.x + location * cand.cw, y |-> cand.y,
     w |-> length * cand.cw, h |-> cand.h]

\* Vision.VNImageRectForNormalizedRect(box, width, height)
VNImageRectForNormalizedRect(box, imageWidth, imageHeight) ==
    [x |-> (box.x * imageWidth) \div Grid, y |-> (box.y * imageHeight) \div Grid,
     w |-> (box.w * imageWidth) \div Grid, h |-> (box.h * imageHeight) \div Grid]

\* Record, were the origin left at the bottom
RecordBottomLeft(box, imageHeight, confidence, text) ==
    [left |-> box.x, top |-> box.y,
     width |-> box.w, height |-> box.h,
     confidence |-> confidence, text |-> text]

\* the tuple the handler appends: (x, height - y - h, w, h, confidence, text)
Record(box, imageHeight, confidence, text) ==
    [left |-> box.x, top |-> imageHeight - box.y - box.h,
     width |-> box.w, height |-> box.h,
     confidence |-> confidence, text |-> text]

\* Series.round(2) of a confidence in thousandths: to the nearest hundredth,
\* a tie to the even hundredth
Round2(c) ==
    LET q == c \div 10
        r == c % 10
    IN  IF r < 5 THEN 10 * q
        ELSE IF r > 5 THEN 10 * (q + 1)
        ELSE IF q % 2 = 0 THEN 10 * q ELSE 10 * (q + 1)

\* pd.DataFrame.from_records(records) with the six columns named and the
\* confidence column rounded
DataFrame(records) ==
    [rows |-> [i \in 1..Len(records) |->
                 [records[i] EXCEPT !.confidence = Round2(records[i].confidence)]]]

\* output_data["text"].values
TextValues(frame) == [i \in 1..Len(frame.rows) |-> frame.rows[i].text]

(***************************************************************************)
(* pathlib.                                                                *)
(***************************************************************************)
\* name.rfind("."): the 1-based position of the last dot of name, 0 if none
LastDot(name) ==
    LET dots == {i \in 1..Len(name) : name[i] = "."}
    IN  IF dots = {} THEN 0 ELSE CHOOSE i \in dots : \A j \in dots : j <= i

\* Suffix, were a name that starts with its only dot taken to have a suffix
SuffixOfDotFile(name) ==
    LET i == LastDot(name)
    IN  IF 0 < i /\ i < Len(name) THEN SubSeq(name, i, Len(name)) ELSE <<>>

\* Path(output).suffix of a path whose final component is name: the part from
\* the last dot on, empty when the dot is the first or the last character
Suffix(name) ==
    LET i == LastDot(name)
    IN  IF 1 < i /\ i < Len(name) THEN SubSeq(name, i, Len(name)) ELSE <<>>

(***************************************************************************)
(* rich.print, which the code imports in place of the built-in print       *)
(* (line 9).  What it writes of a text is rich's rendering of it, which    *)
(* depends on the version of rich, on its tables of styles, emoji and      *)
(* character widths, and on the console it finds; the model keeps the text *)
(* handed to it.  rich reads square brackets as console markup and raises  *)
(* MarkupError at a closing tag that closes nothing: with no tag open      *)
(* before it in any case, and else when rich's tables do not match it with *)
(* an open tag or cannot evaluate the parameters of the tag it closes.     *)
(***************************************************************************)
\* the characters a tag starts with, [a-z#/@] of markup.RE_TAGS
TagStart ==
    {"a", "b", "c", "d", "e", "f", "g", "h", "i", "j", "k", "l", "m", "n", "o", "p",
     "q", "r", "s", "t", "u", "v", "w", "x", "y", "z", "#", "/", "@"}

\* the backslashes right before position p of text
Escapes(text, p) ==
    LET others == {i \in 1..(p - 1) : text[i] # "\\"}
    IN  IF others = {} THEN p - 1
        ELSE p - 1 - (CHOOSE i \in others : \A j \in others : j <= i)

\* markup.RE_TAGS and markup._parse: the positions at which a tag opens in
\* text.  A tag is a bracket, a character of TagStart and what follows up to
\* the next closing bracket, with no opening bracket in it; an odd number of
\* backslashes before it makes it plain text.
Tags(text) ==
    {p \in 1..(Len(text) - 2) :
        /\ text[p] = "[" /\ text[p + 1] \in TagStart
        /\ \E q \in (p + 2)..Len(text) :
              text[q] = "]" /\ \A i \in (p + 1)..(q - 1) : text[i] # "["
        /\ Escapes(text, p) % 2 = 0}

\* the tags of text that close: their name starts with /
ClosingTags(text) == {p \in Tags(text) : text[p + 1] = "/"}

\* markup.render finds a closing tag in text with no tag open before it
ClosesNothing(text) ==
    \E p \in ClosingTags(text) : \A r \in Tags(text) : r < p => r \in ClosingTags(text)

\* print(text) raises MarkupError.  matched: whether rich's tables match every
\* closing tag of the text with a tag open before it
RaisesMarkupError(text, matched) ==
    \/ ClosesNothing(text)
    \/ ClosingTags(text) # {} /\ ~matched

(***************************************************************************)
(* The inputs.                                                             *)
(***************************************************************************)
Chars == {"a", " "}
Strings == SeqsUpTo(Chars, MaxLen)
Confidences == {15, 996}
\* text lines inside the image (at its bottom, touching its top) and one that
\* sticks out of it at the top
LineGeometries ==
    {[x |-> 0, y |-> 0, cw |-> 1, h |-> 1],
     [x |-> 1, y |-> Grid - 2, cw |-> 1, h |-> 2],
     [x |-> 0, y |-> Grid - 1, cw |-> 1, h |-> 2]}
\* every string on one line of text
TextCandidates ==
    {[string |-> s, confidence |-> 996, x |-> 1, y |-> 0, cw |-> 1, h |-> 1] :
        s \in Strings}
\* every confidence and line of text, with a few strings
GeometryCandidates ==
    {[string |-> s, confidence |-> c, x |-> g.x, y |-> g.y, cw |-> g.cw, h |-> g.h] :
        s \in {<<"a", " ", "a">>, <<" ", "a">>}, c \in Confidences, g \in LineGeometries}
\* a few candidates: all whitespace, one word, two words
FewCandidates ==
    {[string |-> s, confidence |-> 996, x |-> 0, y |-> 0, cw |-> 1, h |-> 1] :
        s \in {<<" ">>, <<"a">>, <<"a", " ", "a">>}}
\* a word on either side of each kind of whitespace
WhitespaceCandidates ==
    {[string |-> <<"a", w, "a">>, confidence |-> 996, x |-> 0, y |-> 0, cw |-> 1, h |-> 1] :
        w \in Whitespace}
\* texts with square brackets: a closing tag with no tag before it, alone and
\* after a word, a tag that opens, a tag opened and closed, and a closing
\* tag behind a backslash
MarkupStrings ==
    {<<"[", "/", "]">>,
     <<"a", " ", "[", "/", "a", "]">>,
     <<"[", "a", "]">>,
     <<"[", "b", "]", "a", "[", "/", "b", "]">>,
     <<"\\", "[", "/", "]">>}
MarkupCandidates ==
    {[string |-> s, confidence |-> 996, x |-> 0, y |-> 0, cw |-> 1, h |-> 1] :
        s \in MarkupStrings}
Images == {[width |-> 2 * Grid, height |-> Grid], [width |-> Grid, height |-> 3 * Grid]}
Faults == {"none", "missing_file", "framework_failure"}
\* the values of --lang (multiple=True gives a tuple, empty when not given)
LanguageTuples ==
    {[items |-> l] : l \in {<<>>, <<"de">>, <<"de", "en">>, <<"en", "de">>}}
\* the final component of the resolved --output path
OutputNames ==
    {<<"o">>,
     <<"o", ".", "t", "x", "t">>,
     <<"o", ".", "c", "s", "v">>,
     <<"o", ".", "T", "X", "T">>,
     <<".", "t", "x", "t">>,
     <<"o", ".", "c", "s", "v", ".", "j">>,
     <<"o", ".", "j", ".", "t", "x", "t">>}
Outputs == {None} \cup {[name |-> n] : n \in OutputNames}

\* the one command cli registers
OcrName == <<"o", "c", "r">>

VARIABLES
    caller,               \* "ocr": the command; "api": ocr_image called directly
    fault,                \* what goes wrong outside this code, if anything
    image,                \* the size of the image the file holds
    results,              \* what the framework recognizes in it
    output, fast, words, no_correct, languages,    \* the arguments of ocr
    language_correction,  \* the argument of ocr_image
    pc,                   \* the position in the code
    request,              \* the VNRecognizeTextRequest as configured
    width, height,        \* the closure's variables of ocr_image
    idx,                  \* the results the handler's loop has gone through
    ocr_data_text, ocr_data_words,
    calls,                \* the ranges asked of boundingBoxForRange_error_
    data_text, data_words,
    output_data,
    markup,               \* whether rich's tables match the closing tags it finds
    printed,              \* the texts print has written, each as rich renders it
    fs,                   \* the output file: None while it does not exist
    outcome,              \* how the process or call ended, "" while it runs
    commands,             \* the names of the commands registered with the group
    cmd_name,             \* the command name given on the command line
    rv                    \* what get_command gave: None before it has run

inputs ==
    <<caller, fault, image, results, output, fast, words, no_correct, languages, markup>>
vars == <<caller, fault, image, results, output, fast, words, no_correct, languages, markup,
          language_correction, pc, request, width, height, idx, ocr_data_text,
          ocr_data_words, calls, data_text, data_words, output_data, printed, fs,
          outcome, commands, cmd_name, rv>>
lookup == <<commands, cmd_name, rv>>

\* the state of everything the code assigns, before it runs
Fresh ==
    /\ request = None
    /\ width = Unbound /\ height = Unbound
    /\ idx = 0
    /\ ocr_data_text = <<>> /\ ocr_data_words = <<>>
    /\ calls = <<>>
    /\ data_text = None /\ data_words = None
    /\ output_data = None
    /\ printed = <<>>
    /\ fs = None
    /\ outcome = ""

\* the group as cli builds it, after it has found the command
Dispatched ==
    /\ commands = {OcrName}
    /\ cmd_name = OcrName
    /\ rv = [command |-> OcrName]

\* the ocr command with every combination of its options, on a few texts
InitCommand ==
    /\ caller = "ocr" /\ pc = "ocr"
    /\ fault \in Faults
    /\ image \in {[width |-> 2 * Grid, height |-> Grid]}
    /\ results \in SeqsUpTo(FewCandidates, MaxResults)
    /\ output \in Outputs
    /\ fast \in BOOLEAN /\ words \in BOOLEAN /\ no_correct \in BOOLEAN
    /\ languages \in LanguageTuples
    /\ language_correction = TRUE
    /\ markup = TRUE
    /\ Fresh
    /\ Dispatched

\* ocr_image called with every combination of its keyword arguments
InitRequest ==
    /\ caller = "api" /\ pc = "ocr_image"
    /\ fault = "none"
    /\ image \in {[width |-> 2 * Grid, height |-> Grid]}
    /\ results \in SeqsUpTo(FewCandidates, 1)
    /\ output = None /\ words = FALSE /\ no_correct = FALSE
    /\ fast \in BOOLEAN
    /\ languages \in {None} \cup LanguageTuples
    /\ language_correction \in BOOLEAN
    /\ markup = TRUE
    /\ Fresh
    /\ Dispatched

\* ocr_image called with its default arguments: every recognized text
InitText ==
    /\ caller = "api" /\ pc = "ocr_image"
    /\ fault = "none"
    /\ image \in {[width |-> 2 * Grid, height |-> Grid]}
    /\ results \in SeqsUpTo(TextCandidates, MaxResults)
    /\ output = None /\ words = FALSE /\ no_correct = FALSE
    /\ fast = FALSE
    /\ languages = None
    /\ language_correction = TRUE
    /\ markup = TRUE
    /\ Fresh
    /\ Dispatched

\* ocr_image called with its default arguments: every image, confidence and
\* place of the text
InitGeometry ==
    /\ caller = "api" /\ pc = "ocr_image"
    /\ fault = "none"
    /\ image \in Images
    /\ results \in SeqsUpTo(GeometryCandidates, MaxResults)
    /\ output = None /\ words = FALSE /\ no_correct = FALSE
    /\ fast = FALSE
    /\ languages = None
    /\ language_correction = TRUE
    /\ markup = TRUE
    /\ Fresh
    /\ Dispatched

\* ocr_image called with its default arguments: every kind of whitespace
InitWhitespace ==
    /\ caller = "api" /\ pc = "ocr_image"
    /\ fault = "none"
    /\ image \in {[width |-> 2 * Grid, height |-> Grid]}
    /\ results \in {<<c>> : c \in WhitespaceCandidates}
    /\ output = None /\ words = FALSE /\ no_correct = FALSE
    /\ fast = FALSE
    /\ languages = None
    /\ language_correction = TRUE
    /\ markup = TRUE
    /\ Fresh
    /\ Dispatched

\* the ocr command printing lines or words, on texts with markup in them
InitMarkup ==
    /\ caller = "ocr" /\ pc = "ocr"
    /\ fault = "none"
    /\ image \in {[width |-> 2 * Grid, height |-> Grid]}
    /\ results \in SeqsUpTo(MarkupCandidates, MaxResults)
    /\ output = None /\ words \in BOOLEAN /\ no_correct = FALSE
    /\ fast = FALSE
    /\ languages = [items |-> <<>>]
    /\ language_correction = TRUE
    /\ markup \in BOOLEAN
    /\ Fresh
    /\ Dispatched

Init ==
    InitCommand \/ InitRequest \/ InitText \/ InitGeometry \/ InitWhitespace \/ InitMarkup

(***************************************************************************)
(* ocr_image.                                                              *)
(***************************************************************************)
\* the call fails with an exception that nothing catches
Raise(exception) ==
    /\ pc' = "raised"
    /\ outcome' = exception

\* lines 61-67: the image handle and the empty collections.  A file that does
\* not exist gives no image to work on.
LoadImage ==
    /\ pc = "ocr_image"
    /\ IF fault = "missing_file"
       THEN /\ Raise("missing file")
            /\ UNCHANGED <<data_text, data_words, ocr_data_text, ocr_data_words>>
       ELSE /\ pc' = "request"
            /\ data_text' = None /\ data_words' = None
            /\ ocr_data_text' = <<>> /\ ocr_data_words' = <<>>
            /\ UNCHANGED outcome
    /\ UNCHANGED <<lookup, inputs, language_correction, request, width, height, idx, calls,
                   output_data, printed, fs>>

\* RecognitionLanguages, were the default given for None alone
LanguagesUnlessNone(langs) ==
    IF langs = None THEN <<"en">> ELSE langs.items

\* languages or ["en"]
RecognitionLanguages(langs) ==
    IF langs = None \/ langs.items = <<>> THEN <<"en">> ELSE langs.items

\* 1 if fast else 0
RecognitionLevel(isFast) == IF isFast THEN 1 ELSE 0

\* SetupRequest, were the request performed before the size is read
SetupRequestThenPerform ==
    /\ pc = "request"
    /\ request' = [recognitionLanguages |-> RecognitionLanguages(languages),
                   usesLanguageCorrection |-> language_correction,
                   recognitionLevel |-> RecognitionLevel(fast)]
    /\ pc' = "perform"
    /\ UNCHANGED <<lookup, inputs, language_correction, width, height, idx, ocr_data_text,
                   ocr_data_words, calls, data_text, data_words, output_data,
                   printed, fs, outcome>>

\* lines 100-105: the request and its configuration
SetupRequest ==
    /\ pc = "request"
    /\ request' = [recognitionLanguages |-> RecognitionLanguages(languages),
                   usesLanguageCorrection |-> language_correction,
                   recognitionLevel |-> RecognitionLevel(fast)]
    /\ pc' = "size"
    /\ UNCHANGED <<lookup, inputs, language_correction, width, height, idx, ocr_data_text,
                   ocr_data_words, calls, data_text, data_words, output_data,
                   printed, fs, outcome>>

\* lines 107-108: the size of the image
ReadSize ==
    /\ pc = "size"
    /\ width' = [value |-> image.width]
    /\ height' = [value |-> image.height]
    /\ pc' = "perform"
    /\ UNCHANGED <<lookup, inputs, language_correction, request, idx, ocr_data_text,
                   ocr_data_words, calls, data_text, data_words, output_data,
                   printed, fs, outcome>>

\* lines 109-112: performRequests_error_ starts; the framework recognizes the
\* text and calls the completion handler, or fails
PerformRequests ==
    /\ pc = "perform"
    /\ IF fault = "framework_failure"
       THEN Raise("framework failure")
       ELSE pc' = "output_handler" /\ UNCHANGED outcome
    /\ UNCHANGED <<lookup, inputs, language_correction, request, width, height, idx,
                   ocr_data_text, ocr_data_words, calls, data_text, data_words,
                   output_data, printed, fs>>

\* lines 75-83: the record of the whole line of a candidate
LineRecord(cand, w, h) ==
    Record(VNImageRectForNormalizedRect(
               BoundingBoxForRange(cand, 0, Len(cand.string)), w, h),
           h, cand.confidence, cand.string)

\* WordRecord, were a word given full confidence
WordRecordFullConfidence(cand, span, w, h) ==
    Record(VNImageRectForNormalizedRect(
               BoundingBoxForRange(cand, span.start, span.end - span.start), w, h),
           h, 1000, Group(cand.string, span))

\* lines 86-98: the record of one match of the pattern in a candidate's string
WordRecord(cand, span, w, h) ==
    Record(VNImageRectForNormalizedRect(
               BoundingBoxForRange(cand, span.start, span.end - span.start), w, h),
           h, cand.confidence, Group(cand.string, span))

\* lines 85-98: the records of all matches, in the order finditer gives them
WordRecords(cand, w, h) ==
    LET spans == FindIter(cand.string, 0)
    IN  [j \in 1..Len(spans) |-> WordRecord(cand, spans[j], w, h)]

\* the NSRange of every boundingBoxForRange_error_ call for result number k:
\* the whole line first, then every match
RangeCalls(k, cand) ==
    LET spans == FindIter(cand.string, 0)
    IN  <<[of |-> "line", cand |-> k, location |-> 0, length |-> Len(cand.string)]>> \o
        [j \in 1..Len(spans) |->
            [of |-> "word", cand |-> k, location |-> spans[j].start,
             length |-> spans[j].end - spans[j].start]]

\* lines 70-98: one turn of the handler's loop, for the next result.  The
\* handler reads width and height from the enclosing call: unbound, they
\* raise NameError at line 80, when the box of the whole line has been asked
\* for at lines 75-77.
OutputHandler ==
    /\ pc = "output_handler"
    /\ idx < Len(results)
    /\ IF width = Unbound \/ height = Unbound
       THEN /\ calls' = Append(calls, [of |-> "line", cand |-> idx + 1, location |-> 0,
                                       length |-> Len(results[idx + 1].string)])
            /\ Raise("NameError")
            /\ UNCHANGED <<idx, ocr_data_text, ocr_data_words>>
       ELSE LET cand == results[idx + 1]
            IN  /\ ocr_data_text' =
                       Append(ocr_data_text, LineRecord(cand, width.value, height.value))
                /\ ocr_data_words' =
                       ocr_data_words \o WordRecords(cand, width.value, height.value)
                /\ calls' = calls \o RangeCalls(idx + 1, cand)
                /\ idx' = idx + 1
                /\ UNCHANGED <<pc, outcome>>
    /\ UNCHANGED <<lookup, inputs, language_correction, request, width, height, data_text,
                   data_words, output_data, printed, fs>>

\* line 112: the handler is through with the results and performRequests_error_
\* returns
PerformReturns ==
    /\ pc = "output_handler"
    /\ idx = Len(results)
    /\ pc' = "tables"
    /\ UNCHANGED <<lookup, inputs, language_correction, request, width, height, idx,
                   ocr_data_text, ocr_data_words, calls, data_text, data_words,
                   output_data, printed, fs, outcome>>

\* TableOf, were a table built of no records too
TableAlways(records) == DataFrame(records)

\* lines 114-117 and 119-122: a table of the records, None when there are none
TableOf(records) == IF records # <<>> THEN DataFrame(records) ELSE None

\* lines 114-122
BuildTables ==
    /\ pc = "tables"
    /\ data_text' = TableOf(ocr_data_text)
    /\ data_words' = TableOf(ocr_data_words)
    /\ pc' = "return"
    /\ UNCHANGED <<lookup, inputs, language_correction, request, width, height, idx,
                   ocr_data_text, ocr_data_words, calls, output_data, printed, fs,
                   outcome>>

\* line 124, and line 179 where the command takes the two tables
ReturnTables ==
    /\ pc = "return"
    /\ IF caller = "ocr"
       THEN pc' = "select" /\ UNCHANGED outcome
       ELSE pc' = "returned" /\ outcome' = "returned"
    /\ UNCHANGED <<lookup, inputs, language_correction, request, width, height, idx,
                   ocr_data_text, ocr_data_words, calls, data_text, data_words,
                   output_data, printed, fs>>

NextImage ==
    \/ LoadImage
    \/ SetupRequest
    \/ ReadSize
    \/ PerformRequests
    \/ OutputHandler
    \/ PerformReturns
    \/ BuildTables
    \/ ReturnTables

(***************************************************************************)
(* The ocr command.                                                        *)
(***************************************************************************)
\* lines 179-181: the call of ocr_image
CallOcrImage ==
    /\ pc = "ocr"
    /\ language_correction' = ~no_correct
    /\ pc' = "ocr_image"
    /\ UNCHANGED <<lookup, inputs, request, width, height, idx, ocr_data_text, ocr_data_words,
                   calls, data_text, data_words, output_data, printed, fs, outcome>>

\* line 183
SelectTable(isWords, textTable, wordTable) == IF isWords THEN wordTable ELSE textTable

SelectOutput ==
    /\ pc = "select"
    /\ output_data' = SelectTable(words, data_text, data_words)
    /\ pc' = "output"
    /\ UNCHANGED <<lookup, inputs, language_correction, request, width, height, idx,
                   ocr_data_text, ocr_data_words, calls, data_text, data_words,
                   printed, fs, outcome>>

\* "\n".join(output_data["text"].values)
JoinedText(frame) == Join(<<"\n">>, TextValues(frame))

\* the command finishes normally
Finish ==
    /\ pc' = "done"
    /\ outcome' = "exit 0"

\* lines 185-187: no output path.  Subscripting None raises TypeError; print
\* is rich.print (line 9), and nothing catches its MarkupError, raised
\* before anything is written.
PrintText ==
    /\ pc = "output"
    /\ output = None
    /\ IF output_data = None
       THEN Raise("TypeError") /\ UNCHANGED printed
       ELSE IF RaisesMarkupError(JoinedText(output_data), markup)
       THEN Raise("MarkupError") /\ UNCHANGED printed
       ELSE printed' = Append(printed, JoinedText(output_data)) /\ Finish
    /\ UNCHANGED <<lookup, inputs, language_correction, request, width, height, idx,
                   ocr_data_text, ocr_data_words, calls, data_text, data_words,
                   output_data, fs>>

TxtSuffix == <<".", "t", "x", "t">>
CsvSuffix == <<".", "c", "s", "v">>

\* lines 189-192: the file is opened for writing, which creates it empty, and
\* then the text is joined and written
WriteTxt ==
    /\ pc = "output"
    /\ output # None
    /\ Suffix(output.name) = TxtSuffix
    /\ IF output_data = None
       THEN fs' = [text |-> <<>>] /\ Raise("TypeError")
       ELSE fs' = [text |-> JoinedText(output_data)] /\ Finish
    /\ UNCHANGED <<lookup, inputs, language_correction, request, width, height, idx,
                   ocr_data_text, ocr_data_words, calls, data_text, data_words,
                   output_data, printed>>

\* DataFrame.to_csv: a header row, then one row per record, led by its index
ToCsv(frame) ==
    [header |-> <<"", "left", "top", "width", "height", "confidence", "text">>,
     csv |-> [i \in 1..Len(frame.rows) |->
                [index |-> i - 1, left |-> frame.rows[i].left, top |-> frame.rows[i].top,
                 width |-> frame.rows[i].width, height |-> frame.rows[i].height,
                 confidence |-> frame.rows[i].confidence, text |-> frame.rows[i].text]]]

\* lines 193-194: None has no to_csv
WriteCsv ==
    /\ pc = "output"
    /\ output # None
    /\ Suffix(output.name) # TxtSuffix
    /\ Suffix(output.name) = CsvSuffix
    /\ IF output_data = None
       THEN Raise("AttributeError") /\ UNCHANGED fs
       ELSE fs' = ToCsv(output_data) /\ Finish
    /\ UNCHANGED <<lookup, inputs, language_correction, request, width, height, idx,
                   ocr_data_text, ocr_data_words, calls, data_text, data_words,
                   output_data, printed>>

\* line 196: "No file suffix, could not guess file format"
NoSuffixMessage ==
    <<"N", "o", " ", "f", "i", "l", "e", " ", "s", "u", "f", "f", "i", "x",
      ",", " ", "c", "o", "u", "l", "d", " ", "n", "o", "t", " ", "g", "u",
      "e", "s", "s", " ", "f", "i", "l", "e", " ", "f", "o", "r", "m", "a",
      "t">>

\* lines 195-197: the message has no square bracket, so print raises nothing
UnsupportedSuffix ==
    /\ pc = "output"
    /\ output # None
    /\ Suffix(output.name) # TxtSuffix
    /\ Suffix(output.name) # CsvSuffix
    /\ printed' = Append(printed, NoSuffixMessage)
    /\ pc' = "exited"
    /\ outcome' = "exit 1"
    /\ UNCHANGED <<lookup, inputs, language_correction, request, width, height, idx,
                   ocr_data_text, ocr_data_words, calls, data_text, data_words,
                   output_data, fs>>

Next ==
    \/ CallOcrImage
    \/ NextImage
    \/ SelectOutput
    \/ PrintText
    \/ WriteTxt
    \/ WriteCsv
    \/ UnsupportedSuffix

Spec == Init /\ [][Next]_vars

(***************************************************************************)
(* AliasedGroup.                                                           *)
(***************************************************************************)
\* the most commands a group holds
MaxCommands == 3
\* the longest command name given
MaxName == 3

Letters == {"c", "o", "r"}
\* ord(c)
Ord(c) == CASE c = "c" -> 99 [] c = "o" -> 111 [] c = "r" -> 114

\* a < b for strings: the first difference decides, a proper prefix is less
StrLess(a, b) ==
    \E i \in 1..Len(b) :
        /\ \A j \in 1..(i - 1) : j <= Len(a) /\ a[j] = b[j]
        /\ \/ i = Len(a) + 1
           \/ i <= Len(a) /\ Ord(a[i]) < Ord(b[i])

\* sorted(names) of a set of strings
RECURSIVE SortedSet(_)
SortedSet(names) ==
    IF names = {} THEN <<>>
    ELSE LET least == CHOOSE x \in names : \A y \in names \ {x} : StrLess(x, y)
         IN  <<least>> \o SortedSet(names \ {least})

\* sorted(names) of a list of strings
RECURSIVE SortedList(_)
SortedList(names) ==
    IF names = <<>> THEN <<>>
    ELSE LET k == CHOOSE i \in 1..Len(names) :
                      \A j \in 1..Len(names) : ~StrLess(names[j], names[i])
         IN  <<names[k]>> \o
             SortedList(SubSeq(names, 1, k - 1) \o SubSeq(names, k + 1, Len(names)))

\* x.startswith(prefix)
StartsWith(x, prefix) ==
    Len(prefix) <= Len(x) /\ SubSeq(x, 1, Len(prefix)) = prefix

\* [x for x in names if x.startswith(prefix)]
RECURSIVE Matches(_, _)
Matches(names, prefix) ==
    IF names = <<>> THEN <<>>
    ELSE (IF StartsWith(Head(names), prefix) THEN <<Head(names)>> ELSE <<>>)
         \o Matches(Tail(names), prefix)

\* click.Group.list_commands: the registered names, sorted
ListCommands(cmds) == SortedSet(cmds)

\* click.Group.get_command: the command of that very name, or None
GroupGetCommand(cmds, name) == IF name \in cmds THEN [command |-> name] ELSE None

TooManyMatches == <<"Too many matches: ">>

\* GetCommand, were the name looked up by prefix alone
GetCommandByPrefix(cmds, name) ==
    LET matches == Matches(ListCommands(cmds), name)
    IN  IF matches = <<>> THEN None
        ELSE IF Len(matches) = 1 THEN GroupGetCommand(cmds, matches[1])
        ELSE [usage_error |-> TooManyMatches \o Join(<<",", " ">>, SortedList(matches))]

\* lines 131-140
GetCommand(cmds, name) ==
    LET first == GroupGetCommand(cmds, name)
        matches == Matches(ListCommands(cmds), name)
    IN  IF first # None THEN first
        ELSE IF matches = <<>> THEN None
        ELSE IF Len(matches) = 1 THEN GroupGetCommand(cmds, matches[1])
        ELSE [usage_error |-> TooManyMatches \o Join(<<",", " ">>, SortedList(matches))]

\* the lookup of the name given on the command line
ResolveCommand ==
    /\ pc = "get_command"
    /\ rv' = GetCommand(commands, cmd_name)
    /\ pc' = "resolved"
    /\ UNCHANGED <<commands, cmd_name, inputs, language_correction, request, width,
                   height, idx, ocr_data_text, ocr_data_words, calls, data_text,
                   data_words, output_data, printed, fs, outcome>>

\* a group of any commands, asked for any name
InitGroup ==
    /\ commands \in {c \in SUBSET {OcrName, <<"o", "c">>, <<"o">>, <<"o", "r">>, <<"c", "o">>, <<"r">>} :
                        Cardinality(c) <= MaxCommands}
    /\ cmd_name \in SeqsUpTo(Letters, MaxName)
    /\ rv = None
    /\ caller = "cli" /\ pc = "get_command"
    /\ fault = "none"
    /\ image = [width |-> 2 * Grid, height |-> Grid]
    /\ results = <<>>
    /\ output = None /\ words = FALSE /\ no_correct = FALSE
    /\ fast = FALSE
    /\ languages = [items |-> <<>>]
    /\ language_correction = TRUE
    /\ markup = TRUE
    /\ Fresh

SpecGroup == InitGroup /\ [][ResolveCommand]_vars

(***************************************************************************)
(* What the claims speak of.                                               *)
(***************************************************************************)
\* the call or the process has ended
Ended == outcome # ""

\* performRequests_error_ has returned
Performed ==
    \/ pc \in {"tables", "return", "returned", "select", "output", "done", "exited"}
    \/ outcome \in {"TypeError", "AttributeError", "MarkupError"}

\* ocr_image has built its tables
TablesBuilt == Performed /\ pc # "tables"

\* the command has gone through its output step
OutputDone ==
    /\ caller = "ocr"
    /\ outcome \in {"exit 0", "exit 1", "TypeError", "AttributeError", "MarkupError"}

\* the table the words flag selects
Selected == IF words THEN data_words ELSE data_text

\* name ends with the suffix suf after a stem that is not empty
EndsWithSuffix(name, suf) ==
    /\ Len(name) > Len(suf)
    /\ \A i \in 1..Len(suf) : name[Len(name) - Len(suf) + i] = suf[i]

\* the texts of a table's rows with a newline between any two of them
RECURSIVE Lines(_, _)
Lines(rows, i) ==
    IF i > Len(rows) THEN <<>>
    ELSE rows[i].text \o (IF i < Len(rows) THEN <<"\n">> ELSE <<>>) \o Lines(rows, i + 1)

\* the calls of boundingBoxForRange_error_ made for words
WordCalls == SelectSeq(calls, LAMBDA c : c.of = "word")
LineCalls == SelectSeq(calls, LAMBDA c : c.of = "line")

\* the maximal runs of characters that are not whitespace, as <<start, length>>
\* with start counted from 0
MaximalRuns(string) ==
    LET n == Len(string)
        starts == {a \in 0..(n - 1) :
                      ~IsSpace(string[a + 1]) /\ (a = 0 \/ IsSpace(string[a]))}
        ends == {b \in 1..n : ~IsSpace(string[b]) /\ (b = n \/ IsSpace(string[b + 1]))}
    IN  {<<a, (CHOOSE b \in ends : b > a /\ \A c \in ends : c > a => b <= c) - a>> :
            a \in starts}

\* the output path is one the command writes to: none, or one with the suffix
\* .txt or .csv
SupportedOutput ==
    \/ output = None
    \/ EndsWithSuffix(output.name, TxtSuffix)
    \/ EndsWithSuffix(output.name, CsvSuffix)

\* the table given is in the sink the output path names, and nowhere else
Delivered(frame) ==
    /\ output = None =>
          /\ printed = <<Lines(frame.rows, 1)>>
          /\ fs = None
    /\ output # None /\ EndsWithSuffix(output.name, TxtSuffix) =>
          /\ fs = [text |-> Lines(frame.rows, 1)]
          /\ printed = <<>>
    /\ output # None /\ EndsWithSuffix(output.name, CsvSuffix) =>
          /\ fs # None
          /\ printed = <<>>
          /\ Len(fs.csv) = Len(frame.rows)
          /\ \A i \in 1..Len(frame.rows) :
                /\ fs.csv[i].index = i - 1
                /\ \A col \in {"left", "top", "width", "height", "confidence", "text"} :
                      fs.csv[i][col] = frame.rows[i][col]

\* C1: once the ocr command has gone through its output step with no output
\* path, a .txt path or a .csv path, the table the words flag selects is in
\* the sink the path names: its text column joined by newlines on the console
\* and no file, the same string in the .txt file, or its rows in the .csv
\* file.
C1_SinkByOutputPath ==
    OutputDone /\ SupportedOutput => Selected # None /\ Delivered(Selected)

\* What holds of the sink: the same, for a table that is not None, unless
\* print raises MarkupError.
SinkWhenTextSelected ==
    OutputDone /\ SupportedOutput /\ Selected # None /\ outcome # "MarkupError" =>
        outcome = "exit 0" /\ Delivered(Selected)

\* C2: with an output path whose suffix is neither .txt nor .csv the command
\* never creates the file, takes neither the .txt nor the .csv branch at its
\* output step, prints nothing but the one message, which is a single line of
\* text, and ends with that message and exit status 1, whatever was
\* recognized.
C2_UnsupportedSuffix ==
    caller = "ocr" /\ ~SupportedOutput =>
        /\ fs = None
        /\ pc = "output" =>
              Suffix(output.name) # TxtSuffix /\ Suffix(output.name) # CsvSuffix
        /\ pc \in {"done", "exited"} \/ OutputDone =>
              /\ outcome = "exit 1" /\ pc = "exited"
              /\ printed = <<NoSuffixMessage>>
              /\ \A i \in 1..Len(NoSuffixMessage) : NoSuffixMessage[i] # "\n"
        /\ outcome # "exit 1" => printed = <<>>

\* C2 happens: exit status 1 for a dot file name, with no text recognized.
C2_Witness ==
    /\ outcome = "exit 1"
    /\ output.name = TxtSuffix
    /\ results = <<>>

\* C6: the command ends in no other way than normally, with exit status 1 for
\* the suffix, or with the failure of a missing file or of the framework; and
\* it ends normally, the selected table delivered, whenever nothing fails
\* outside it and the output path is supported.
C6_FinishesNormally ==
    caller = "ocr" /\ Ended =>
        /\ outcome \in {"exit 0", "exit 1", "missing file", "framework failure"}
        /\ fault = "none" /\ SupportedOutput =>
              outcome = "exit 0" /\ (Selected # None => Delivered(Selected))

\* the box the framework gives for a call, in pixels of the image
FrameworkBox(call) ==
    VNImageRectForNormalizedRect(
        BoundingBoxForRange(results[call.cand], call.location, call.length),
        image.width, image.height)

\* C3: the handler collects one line record per result it has gone through, in
\* the order of the results, with the whole string as text and the box asked
\* for the range (0, length); and for each result one word record per maximal
\* run of characters that are not whitespace, in the order the runs occur,
\* with the run as text and the box asked for the range (start, length) of the
\* run.  A string with no such run gives a line record and no word record.
\* performRequests_error_ returns when the handler has gone through all.
C3_LineAndWordRecords ==
    /\ Performed => idx = Len(results)
    /\ Len(ocr_data_text) = idx
    /\ Len(LineCalls) = idx
    /\ \A i \in 1..idx :
          /\ ocr_data_text[i].text = results[i].string
          /\ LineCalls[i] = [of |-> "line", cand |-> i, location |-> 0,
                             length |-> Len(results[i].string)]
          /\ {<<c.location, c.length>> : c \in {WordCalls[j] : j \in
                  {n \in 1..Len(WordCalls) : WordCalls[n].cand = i}}}
                = MaximalRuns(results[i].string)
          /\ Cardinality({n \in 1..Len(WordCalls) : WordCalls[n].cand = i})
                = Cardinality(MaximalRuns(results[i].string))
    /\ Len(ocr_data_words) = Len(WordCalls)
    /\ \A j \in 1..Len(WordCalls) :
          LET c == WordCalls[j]
          IN  /\ c.cand \in 1..idx
              /\ ocr_data_words[j].text =
                     [n \in 1..c.length |-> results[c.cand].string[c.location + n]]
              /\ ocr_data_words[j].left = FrameworkBox(c).x
              /\ ocr_data_words[j].width = FrameworkBox(c).w
    /\ \A j, k \in 1..Len(WordCalls) :
          j < k => \/ WordCalls[j].cand < WordCalls[k].cand
                   \/ /\ WordCalls[j].cand = WordCalls[k].cand
                      /\ WordCalls[j].location < WordCalls[k].location

\* C3 happens: two results gone through, one with two words and one with none.
C3_Witness ==
    /\ Performed
    /\ Len(ocr_data_text) = 2
    /\ results[1].string = <<"a", " ", "a">>
    /\ results[2].string = <<" ", " ">>
    /\ Len(ocr_data_words) = 2
    /\ ocr_data_words[2].text = <<"a">>

\* C4: the handler runs only with width and height bound and never raises
\* NameError; when performRequests_error_ has returned the handler has gone
\* through every result; no table is built before that; and the tables
\* ocr_image returns hold every record collected, none being added later.
C4_SynchronousOrder ==
    /\ pc = "output_handler" \/ idx > 0 => width # Unbound /\ height # Unbound
    /\ pc \in {"perform", "output_handler"} \/ Performed =>
          width = [value |-> image.width] /\ height = [value |-> image.height]
    /\ outcome # "NameError"
    /\ ~Performed => data_text = None /\ data_words = None
    /\ Performed =>
          /\ idx = Len(results)
          /\ Len(ocr_data_text) = Len(results)
    /\ TablesBuilt =>
          /\ (IF data_text = None THEN 0 ELSE Len(data_text.rows)) = Len(ocr_data_text)
          /\ (IF data_words = None THEN 0 ELSE Len(data_words.rows)) = Len(ocr_data_words)
          /\ data_text # None => TextValues(data_text) =
                 [i \in 1..Len(results) |-> results[i].string]

\* C4 happens: ocr_image has returned the tables of two results.
C4_Witness ==
    /\ pc = "returned"
    /\ Len(results) = 2
    /\ Len(data_text.rows) = 2
    /\ data_words # None

\* a record is the framework's box with the origin moved to the top left
TopLeftOf(record, box) ==
    /\ record.left = box.x
    /\ record.top = image.height - box.y - box.h
    /\ record.width = box.w
    /\ record.height = box.h
    /\ 0 <= box.y /\ box.y + box.h <= image.height =>
          0 <= record.top /\ record.top + record.height <= image.height

\* C5: every line record and every word record is the framework's box in
\* pixels with left = x, top = H - y - h, width = w, height = h; and when that
\* box lies inside the image, so does the record: 0 <= top, top + height <= H.
C5_TopLeftOrigin ==
    /\ Len(ocr_data_text) = Len(LineCalls)
    /\ Len(ocr_data_words) = Len(WordCalls)
    /\ \A i \in 1..Len(LineCalls) : TopLeftOf(ocr_data_text[i], FrameworkBox(LineCalls[i]))
    /\ \A j \in 1..Len(WordCalls) : TopLeftOf(ocr_data_words[j], FrameworkBox(WordCalls[j]))

\* C5 happens: a word that touches the top of the image and one that does not.
C5_Witness ==
    /\ Performed
    /\ \E j, k \in 1..Len(ocr_data_words) :
          /\ ocr_data_words[j].top = 0
          /\ ocr_data_words[j].height > 0
          /\ ocr_data_words[k].top > 0
          /\ ocr_data_words[k].top + ocr_data_words[k].height = image.height

\* C8: a request that is about to be performed, or has been, is configured:
\* its level is 1 if fast and 0 if not, it corrects language unless the
\* command was told not to (as ocr_image was told, called directly), and its
\* languages are those given in their order, or en alone when none is given.
C8_RequestConfiguration ==
    /\ pc \in {"perform", "output_handler"} \/ Performed => request # None
    /\ request # None =>
          /\ request.recognitionLevel = 1 <=> fast
          /\ request.recognitionLevel = 0 <=> ~fast
          /\ caller = "ocr" => (request.usesLanguageCorrection <=> ~no_correct)
          /\ caller = "api" => (request.usesLanguageCorrection <=> language_correction)
          /\ IF languages = None THEN request.recognitionLanguages = <<"en">>
             ELSE IF Len(languages.items) = 0 THEN request.recognitionLanguages = <<"en">>
             ELSE request.recognitionLanguages = languages.items

\* C8 happens: the command, fast, told not to correct, with no language given.
C8_Witness ==
    /\ caller = "ocr"
    /\ pc = "perform"
    /\ fast /\ no_correct
    /\ languages = [items |-> <<>>]
    /\ request = [recognitionLanguages |-> <<"en">>, usesLanguageCorrection |-> FALSE,
                  recognitionLevel |-> 1]

\* C9: every word record has the confidence of the candidate it was cut from,
\* which is the confidence of that candidate's line record; so it is in the
\* tables, where the confidences of the word table are among those of the
\* line table.
C9_WordConfidence ==
    /\ Len(ocr_data_words) = Len(WordCalls)
    /\ \A j \in 1..Len(WordCalls) :
          /\ ocr_data_words[j].confidence = results[WordCalls[j].cand].confidence
          /\ ocr_data_words[j].confidence = ocr_data_text[WordCalls[j].cand].confidence
    /\ TablesBuilt /\ data_words # None =>
          /\ data_text # None
          /\ \A j \in 1..Len(data_words.rows) :
                data_words.rows[j].confidence =
                    data_text.rows[WordCalls[j].cand].confidence
          /\ {data_words.rows[j].confidence : j \in 1..Len(data_words.rows)} \subseteq
                {data_text.rows[i].confidence : i \in 1..Len(data_text.rows)}

\* C9 happens: a word table with words of two lines of different confidence.
C9_Witness ==
    /\ TablesBuilt
    /\ data_words # None
    /\ \E j, k \in 1..Len(data_words.rows) :
          /\ data_words.rows[j].confidence = 20
          /\ data_words.rows[k].confidence = 1000

\* C10: a table ocr_image returns is None exactly when no record of its kind
\* was collected, and has a row otherwise; a word table comes with a line
\* table.
C10_NoEmptyTable ==
    TablesBuilt =>
        /\ data_text = None <=> ocr_data_text = <<>>
        /\ data_words = None <=> ocr_data_words = <<>>
        /\ data_text # None => Len(data_text.rows) > 0
        /\ data_words # None => Len(data_words.rows) > 0
        /\ data_words # None => data_text # None

\* C10 happens, and the converse does not hold: a line table with no word
\* table.
C10_Witness ==
    /\ pc = "returned"
    /\ data_text # None
    /\ data_words = None

\* prefix is the beginning of name
IsPrefixOf(prefix, name) ==
    /\ Len(prefix) <= Len(name)
    /\ \A i \in 1..Len(prefix) : name[i] = prefix[i]

\* the registered commands the name given is a prefix of
PrefixMatches == {c \in commands : IsPrefixOf(cmd_name, c)}

\* the names of a sequence with ", " between any two of them
RECURSIVE Listed(_, _)
Listed(names, i) ==
    IF i > Len(names) THEN <<>>
    ELSE names[i] \o (IF i < Len(names) THEN <<",", " ">> ELSE <<>>) \o Listed(names, i + 1)

\* the ways to list a set of names in ascending order
Ascending(names) ==
    {q \in [1..Cardinality(names) -> names] :
        \A i, j \in 1..Cardinality(names) : i < j => StrLess(q[i], q[j])}

\* C7: get_command gives the command of the very name given, if there is one;
\* else the one command the name is a prefix of; else, if it is a prefix of
\* several, a usage error that lists them in ascending order; else None.  In
\* the group of ocr alone every prefix of ocr gives ocr.
C7_CommandLookup ==
    pc = "resolved" =>
        /\ cmd_name \in commands => rv = [command |-> cmd_name]
        /\ cmd_name \notin commands /\ Cardinality(PrefixMatches) = 1 =>
              \E c \in PrefixMatches : rv = [command |-> c]
        /\ cmd_name \notin commands /\ Cardinality(PrefixMatches) >= 2 =>
              \E q \in Ascending(PrefixMatches) :
                  rv = [usage_error |-> TooManyMatches \o Listed(q, 1)]
        /\ PrefixMatches = {} => rv = None
        /\ commands = {OcrName} /\ IsPrefixOf(cmd_name, OcrName) =>
              rv = [command |-> OcrName]

\* C7 happens: a name that is a command and a prefix of two more.
C7_Witness ==
    /\ pc = "resolved"
    /\ cmd_name = <<"o">>
    /\ commands = {<<"o">>, <<"o", "c">>, OcrName}
    /\ rv = [command |-> <<"o">>]

====
